---------------------------- MODULE Spec2Model ----------------------------
(***************************************************************************)
(* A model of the real-time voice session engine of the prescription       *)
(* renewal assistant.  The repository holds two engines:                   *)
(*                                                                         *)
(*   "hook"  the useLiveSession hook (src/unnamed/part_005) driven by the  *)
(*           review/payment application (src/unnamed/part_002), with the   *)
(*           validation helpers of src/unnamed/part_000;                   *)
(*   "app"   the payment-gated single-component engine of src/App.tsx      *)
(*           with the notification services of src/services.               *)
(*                                                                         *)
(* A behaviour fixes one engine (variable variant) and runs it against an  *)
(* environment made of the user, the microphone, the remote channel, the   *)
(* audio clock and the notification services.  One action is one           *)
(* JavaScript task: a callback or the continuation of an await, run to its *)
(* next suspension point together with the promise reactions it releases.  *)
(***************************************************************************)
EXTENDS Naturals, Integers, Sequences, FiniteSets, TLC

\* ----------------------------------------------------------------- bounds
MaxSessions == 2
MaxMsgs == 2
MaxCalls == 2
MaxClock == 1
MaxDur == 1
\* the scenarios' own limits (see the specifications at the end)
LifeMsgs == 1
ToolSessions == 1
PlaySessions == 1
PlayClock == 2
PlayDur == 2
\* the frames captured in one session
MaxFrames == 3

Sessions == 1..MaxSessions
Msgs == 1..MaxMsgs
Durations == 1..MaxDur

\* ------------------------------------------------- strings and arguments
\* A string is a sequence of characters; a field of the untyped tool-call
\* arguments is undefined, a non-string value or a string.
Undef == [t |-> "undef", s |-> <<>>]
NonString == [t |-> "num", s |-> <<>>]
Str(s) == [t |-> "str", s |-> s]

Fields ==
  {"fullName", "dateOfBirth", "allergies", "currentMedications",
   "renewalRequest", "whatsappNumber", "pharmacy"}

IsSpace(c) == c = " "

RECURSIVE TrimLeft(_)
TrimLeft(s) ==
  IF s = <<>> THEN <<>>
  ELSE IF IsSpace(Head(s)) THEN TrimLeft(Tail(s)) ELSE s

RECURSIVE TrimRight(_)
TrimRight(s) ==
  IF s = <<>> THEN <<>>
  ELSE IF IsSpace(s[Len(s)]) THEN TrimRight(SubSeq(s, 1, Len(s) - 1)) ELSE s

\* String.prototype.trim
Trim(s) == TrimRight(TrimLeft(s))

\* phoneRegex = /^[\d\s\-\+\(\)]+$/
PhoneChars == {"0", "1", " ", "-", "+", "(", ")"}
PhoneRegexTest(s) == s # <<>> /\ \A k \in 1..Len(s) : s[k] \in PhoneChars

\* data.f?.trim() || dflt : the TypeError of calling trim on a non-string
\* is reported by SanitizeThrows.
SanitizeField(v, dflt) ==
  IF v.t = "str" /\ Trim(v.s) # <<>> THEN Trim(v.s) ELSE dflt

NoneStr == <<"N", "o", "n", "e">>

\* A faulty sanitizeData, for comparison: strings are taken as they are.
sanitizeData_untrimmed(data) ==
  [f \in Fields |->
     IF data.f[f].t = "str" /\ data.f[f].s # <<>> THEN data.f[f].s
     ELSE IF f = "allergies" THEN NoneStr ELSE <<>>]

sanitizeData(data) ==
  [f \in Fields |->
     SanitizeField(data.f[f], IF f = "allergies" THEN NoneStr ELSE <<>>)]

\* sanitizeData throws a TypeError when data itself is undefined or when a
\* present field is not a string (it has no trim method).
SanitizeThrows(data) ==
  \/ ~data.present
  \/ \E f \in Fields : data.f[f].t = "num"

\* validatePrescriptionData(...).isValid, on a sanitized record
validatePrescriptionData(d) ==
  /\ Len(Trim(d["fullName"])) >= 2
  /\ Len(Trim(d["dateOfBirth"])) # 0
  /\ PhoneRegexTest(d["whatsappNumber"])
  /\ Len(Trim(d["pharmacy"])) >= 2
  /\ Len(Trim(d["allergies"])) # 0
  /\ Len(Trim(d["currentMedications"])) >= 2
  /\ Len(Trim(d["renewalRequest"])) >= 2

\* The argument objects the remote model is made to send.
ArgsAbsent == [present |-> FALSE, f |-> [f \in Fields |-> Undef]]

ArgsComplete ==
  [present |-> TRUE,
   f |-> [f \in Fields |->
            IF f = "whatsappNumber" THEN Str(<<"+", "1">>)
            ELSE IF f = "dateOfBirth" THEN Str(<<"1">>)
            ELSE Str(<<"a", "b">>)]]

ArgsPadded ==
  [present |-> TRUE,
   f |-> [f \in Fields |->
            IF f = "whatsappNumber" THEN Str(<<" ", "1">>)
            ELSE IF f = "allergies" THEN Undef
            ELSE Str(<<" ", "a", "b", " ">>)]]

\* every field present, each with surrounding white space
ArgsSpaced ==
  [present |-> TRUE,
   f |-> [f \in Fields |->
            IF f = "whatsappNumber" THEN Str(<<" ", "1", " ">>)
            ELSE Str(<<" ", "a", "b", " ">>)]]

ArgsIncomplete ==
  [present |-> TRUE,
   f |-> [f \in Fields |->
            IF f = "whatsappNumber" THEN Undef ELSE Str(<<"a", "b">>)]]

ArgsNonString ==
  [present |-> TRUE,
   f |-> [f \in Fields |->
            IF f = "fullName" THEN NonString ELSE Str(<<"a", "b">>)]]

ArgSamples ==
  {ArgsAbsent, ArgsComplete, ArgsPadded, ArgsSpaced, ArgsIncomplete,
   ArgsNonString}


\* A function call of a tool-call message: its position in the message is
\* its identifier; name and args are what the remote model chose.
ToolNames == {"submitPrescriptionRequest", "requestPayment", "unknownTool"}

CallKinds ==
  [name : {"submitPrescriptionRequest"}, args : ArgSamples]
    \cup [name : {"requestPayment", "unknownTool"}, args : {ArgsAbsent}]

CallLists == UNION {[1..k -> CallKinds] : k \in 0..MaxCalls}

\* An inbound LiveServerMessage: an optional audio chunk, the interrupted
\* flag, and the function calls of its toolCall (none: no toolCall).
Messages == [audio : BOOLEAN, interrupted : BOOLEAN, calls : CallLists]

NoData == [f \in Fields |-> <<>>]

\* ------------------------------------------------------------------ state
VARIABLES
  variant,              \* "hook" or "app": the engine this behaviour runs
  \* --- environment: what the browser and the remote side hold
  nStarts,              \* start calls made so far; call i owns stream i, channel i
  startPc,              \* per start call: "none", "awaitMic", "done"
  startFailed,          \* per start call: it ended in its catch block
  stream,               \* per call: MediaStream "none" | "live" | "stopped"
  trackStops,           \* per call: times track.stop() ran on its stream
  promise,              \* per call: connect promise "none"|"pending"|"resolved"|"rejected"
  chan,                 \* per call: socket "none"|"connecting"|"open"|"closing"|"failed"|"closed"
  closeCalls,           \* per call: times session.close() ran
  pendingClose,         \* per call: a then(close) waits on the pending promise
  procNode,             \* per call: ScriptProcessor "none"|"created"|"connected"|"disconnected"
  procDisconnects,      \* per call: times processor.disconnect() ran
  srcNode,              \* per call: MediaStreamSource, as procNode
  srcDisconnects,       \* per call: times source.disconnect() ran
  ctxTime,              \* per call: currentTime of its output AudioContext
  nMsgs,                \* inbound messages delivered so far
  nCalls,               \* per message: function calls it carried
  task,                 \* per message: its suspended onmessage invocation
  sources,              \* per message: the AudioBufferSourceNode of its chunk
  sentResponses,        \* tool responses written to an open socket, in order
  threw,                \* handlers that ended in an uncaught exception
  stopCalls,            \* stop() calls since resources were last acquired (2: two or more)
  nDelivered,           \* per call: records its channel's handler surfaced to the application
  nFrames,              \* per call: frames its capture callback was given so far
  outbox,               \* per call: frames handed to the socket and not yet transmitted
  timeline,             \* the playback timeline since nextStartTime was last reset:
                        \*   last: message whose chunk was scheduled last (0: none yet)
                        \*   arr: clock at the latest chunk arrival since then (-1: none)
                        \*   cut: clock at the interruption that reset it (-1: none)
  surfaced,             \* what the hook held when a validation error was last handed
                        \*   to onDataCollected: "none" (never), "active", "ended"
  stoppedAt,            \* start calls made when stop() last ran (-1: it never ran)
  \* --- refs and state shared by both engines (same names in both files)
  processorRef, sessionPromiseRef, nextStartTimeRef,
  \* --- useLiveSession (hook)
  isSessionActiveRef, scheduledSourcesRef, audioStreamRef, sourceRef,
  outputAudioContextRef, isConnected, isSpeaking,
  \* --- application around the hook
  appState, errorMsg, collectedData, hasClickedPayment,
  \* --- App.tsx
  status, hasError, showPayment, isTextMode, isProcessingTool,
  audioContextRef, inputSourceRef, sourcesRef, chatSessionRef

envVars ==
  <<nStarts, startPc, startFailed, stream, trackStops, promise, chan,
    closeCalls, pendingClose, procNode, procDisconnects, srcNode,
    srcDisconnects, ctxTime, nMsgs, nCalls, task, sources, sentResponses,
    threw, stopCalls, nDelivered, nFrames, outbox, timeline, surfaced,
    stoppedAt>>

captureVars == <<nFrames, outbox>>

sharedVars == <<processorRef, sessionPromiseRef, nextStartTimeRef>>

hookVars ==
  <<isSessionActiveRef, scheduledSourcesRef, audioStreamRef, sourceRef,
    outputAudioContextRef, isConnected, isSpeaking>>

hookAppVars == <<appState, errorMsg, collectedData, hasClickedPayment>>

appVars ==
  <<status, hasError, showPayment, isTextMode, isProcessingTool,
    audioContextRef, inputSourceRef, sourcesRef, chatSessionRef>>

vars == <<variant, envVars, sharedVars, hookVars, hookAppVars, appVars>>

NoTask ==
  [pc |-> "none", sess |-> 0, ctx |-> 0, interrupted |-> FALSE,
   calls |-> <<>>, k |-> 0]

NoTimeline == [last |-> 0, arr |-> -1, cut |-> -1]

NoSource == [st |-> "none", start |-> 0, dur |-> 0, ctx |-> 0]

Init ==
  /\ variant \in {"hook", "app"}
  /\ nStarts = 0
  /\ startPc = [i \in Sessions |-> "none"]
  /\ startFailed = [i \in Sessions |-> FALSE]
  /\ stream = [i \in Sessions |-> "none"]
  /\ trackStops = [i \in Sessions |-> 0]
  /\ promise = [i \in Sessions |-> "none"]
  /\ chan = [i \in Sessions |-> "none"]
  /\ closeCalls = [i \in Sessions |-> 0]
  /\ pendingClose = [i \in Sessions |-> FALSE]
  /\ procNode = [i \in Sessions |-> "none"]
  /\ procDisconnects = [i \in Sessions |-> 0]
  /\ srcNode = [i \in Sessions |-> "none"]
  /\ srcDisconnects = [i \in Sessions |-> 0]
  /\ ctxTime = [i \in Sessions |-> 0]
  /\ nMsgs = 0
  /\ nCalls = [n \in Msgs |-> 0]
  /\ task = [n \in Msgs |-> NoTask]
  /\ sources = [n \in Msgs |-> NoSource]
  /\ sentResponses = <<>>
  /\ threw = {}
  /\ stopCalls = 0
  /\ nDelivered = [i \in Sessions |-> 0]
  /\ nFrames = [i \in Sessions |-> 0]
  /\ outbox = [i \in Sessions |-> <<>>]
  /\ timeline = NoTimeline
  /\ surfaced = "none"
  /\ stoppedAt = -1
  /\ hasClickedPayment = FALSE
  /\ processorRef = 0
  /\ sessionPromiseRef = 0
  /\ nextStartTimeRef = 0
  /\ isSessionActiveRef = FALSE
  /\ scheduledSourcesRef = {}
  /\ audioStreamRef = 0
  /\ sourceRef = 0
  /\ outputAudioContextRef = 0
  /\ isConnected = FALSE
  /\ isSpeaking = FALSE
  /\ appState = "WELCOME"
  /\ errorMsg = "null"
  /\ collectedData = NoData
  /\ status = "disconnected"
  /\ hasError = "null"
  /\ showPayment = FALSE
  /\ isTextMode = FALSE
  /\ isProcessingTool = FALSE
  /\ audioContextRef = 0
  /\ inputSourceRef = 0
  /\ sourcesRef = {}
  /\ chatSessionRef = FALSE

\* ---------------------------------------------------------------- helpers
\* A faulty maximum, for comparison: the clock is ignored.
TakeFirst(a, b) == a

\* A faulty maximum, for comparison: the clock always wins.
TakeSecond(a, b) == b

Max(a, b) == IF a >= b THEN a ELSE b

\* source.stop() on every node of a playback set
StopSources(srcs, set) ==
  [n \in Msgs |->
     IF n \in set /\ srcs[n].st = "playing"
       THEN [srcs[n] EXCEPT !.st = "stopped"]
       ELSE srcs[n]]

\* session.close() on the session of call s: an open socket starts closing
CloseSession(ch, s) ==
  IF ch[s] = "open" THEN [ch EXCEPT ![s] = "closing"] ELSE ch

\* one more stop() call counted in stopCalls
CountStop(c) == IF c < 2 THEN c + 1 ELSE 2

\* sessionPromise.then(session => session.sendToolResponse(...)) in a handler
\* of channel s, whose promise is resolved: the reaction runs in the same
\* task, and the response goes out if the socket is still open.
SendToolResponse(sent, ch, s, id) ==
  IF ch[s] = "open" THEN Append(sent, id) ELSE sent

\* the index of the first submitPrescriptionRequest call of a list, or 0
FirstSubmit(calls) ==
  IF \E j \in 1..Len(calls) : calls[j].name = "submitPrescriptionRequest"
    THEN CHOOSE j \in 1..Len(calls) :
           /\ calls[j].name = "submitPrescriptionRequest"
           /\ \A k \in 1..(j - 1) : calls[k].name # "submitPrescriptionRequest"
    ELSE 0

\* A faulty stopSession, for comparison: the stream reference is left in
\* place after its tracks were stopped.  C5_StopIsIdempotent fails with it.
stopSession_keepsStream(ch) ==
  /\ stopCalls' = CountStop(stopCalls)
  /\ stoppedAt' = nStarts
  /\ isSessionActiveRef' = FALSE
  /\ sources' = StopSources(sources, scheduledSourcesRef)
  /\ scheduledSourcesRef' = {}
  /\ IF audioStreamRef # 0
       THEN /\ stream' = [stream EXCEPT ![audioStreamRef] = "stopped"]
            /\ trackStops' = [trackStops EXCEPT ![audioStreamRef] = @ + 1]
       ELSE UNCHANGED <<stream, trackStops>>
  /\ audioStreamRef' = audioStreamRef
  /\ IF sourceRef # 0
       THEN /\ srcNode' = [srcNode EXCEPT ![sourceRef] = "disconnected"]
            /\ srcDisconnects' = [srcDisconnects EXCEPT ![sourceRef] = @ + 1]
       ELSE UNCHANGED <<srcNode, srcDisconnects>>
  /\ sourceRef' = 0
  /\ IF processorRef # 0
       THEN /\ procNode' = [procNode EXCEPT ![processorRef] = "disconnected"]
            /\ procDisconnects' = [procDisconnects EXCEPT ![processorRef] = @ + 1]
       ELSE UNCHANGED <<procNode, procDisconnects>>
  /\ processorRef' = 0
  /\ IF sessionPromiseRef # 0 /\ promise[sessionPromiseRef] = "resolved"
       THEN /\ chan' = CloseSession(ch, sessionPromiseRef)
            /\ closeCalls' = [closeCalls EXCEPT ![sessionPromiseRef] = @ + 1]
            /\ UNCHANGED pendingClose
       ELSE /\ chan' = ch
            /\ UNCHANGED closeCalls
            /\ pendingClose' =
                 IF sessionPromiseRef # 0 /\ promise[sessionPromiseRef] = "pending"
                   THEN [pendingClose EXCEPT ![sessionPromiseRef] = TRUE]
                   ELSE pendingClose
  /\ sessionPromiseRef' = 0
  /\ isConnected' = FALSE
  /\ isSpeaking' = FALSE

\* -------------------------------------------------- useLiveSession (hook)
\* stopSession, called with the sockets as the caller found them (ch).
stopSession(ch) ==
  /\ stopCalls' = CountStop(stopCalls)
  /\ stoppedAt' = nStarts
  /\ isSessionActiveRef' = FALSE
  /\ sources' = StopSources(sources, scheduledSourcesRef)
  /\ scheduledSourcesRef' = {}
  /\ IF audioStreamRef # 0
       THEN /\ stream' = [stream EXCEPT ![audioStreamRef] = "stopped"]
            /\ trackStops' = [trackStops EXCEPT ![audioStreamRef] = @ + 1]
       ELSE UNCHANGED <<stream, trackStops>>
  /\ audioStreamRef' = 0
  /\ IF sourceRef # 0
       THEN /\ srcNode' = [srcNode EXCEPT ![sourceRef] = "disconnected"]
            /\ srcDisconnects' = [srcDisconnects EXCEPT ![sourceRef] = @ + 1]
       ELSE UNCHANGED <<srcNode, srcDisconnects>>
  /\ sourceRef' = 0
  /\ IF processorRef # 0
       THEN /\ procNode' = [procNode EXCEPT ![processorRef] = "disconnected"]
            /\ procDisconnects' = [procDisconnects EXCEPT ![processorRef] = @ + 1]
       ELSE UNCHANGED <<procNode, procDisconnects>>
  /\ processorRef' = 0
  /\ IF sessionPromiseRef # 0 /\ promise[sessionPromiseRef] = "resolved"
       THEN /\ chan' = CloseSession(ch, sessionPromiseRef)
            /\ closeCalls' = [closeCalls EXCEPT ![sessionPromiseRef] = @ + 1]
            /\ UNCHANGED pendingClose
       ELSE /\ chan' = ch
            /\ UNCHANGED closeCalls
            /\ pendingClose' =
                 IF sessionPromiseRef # 0 /\ promise[sessionPromiseRef] = "pending"
                   THEN [pendingClose EXCEPT ![sessionPromiseRef] = TRUE]
                   ELSE pendingClose
  /\ sessionPromiseRef' = 0
  /\ isConnected' = FALSE
  /\ isSpeaking' = FALSE

\* what stopSession leaves alone among the variables of the hook engine
stopSessionFrame ==
  UNCHANGED <<variant, nStarts, startPc, startFailed, promise, ctxTime,
              nextStartTimeRef, outputAudioContextRef, appVars>>

\* handleStartConsultation, up to startSession's await of getUserMedia
handleStartConsultation ==
  /\ variant = "hook"
  /\ appState = "WELCOME"
  /\ nStarts < MaxSessions
  /\ appState' = "CONNECTING"
  /\ nStarts' = nStarts + 1
  /\ startPc' = [startPc EXCEPT ![nStarts + 1] = "awaitMic"]
  /\ outputAudioContextRef' = nStarts + 1
  /\ nextStartTimeRef' = 0
  /\ timeline' = NoTimeline
  /\ UNCHANGED <<variant, startFailed, stream, trackStops, promise, chan,
                 closeCalls, pendingClose, procNode, procDisconnects, srcNode,
                 srcDisconnects, ctxTime, nMsgs, nCalls, task, sources,
                 sentResponses, threw, stopCalls, nDelivered, captureVars, surfaced, stoppedAt, processorRef, sessionPromiseRef,
                 isSessionActiveRef, scheduledSourcesRef, audioStreamRef,
                 sourceRef, isConnected, isSpeaking, errorMsg, collectedData,
                 hasClickedPayment, appVars>>

\* startSession resumed by getUserMedia: the rest of its body (or its catch
\* block), then the continuation of handleStartConsultation, which runs as
\* soon as startSession's promise is fulfilled.
startSession(i, granted) ==
  /\ variant = "hook"
  /\ startPc[i] = "awaitMic"
  /\ startPc' = [startPc EXCEPT ![i] = "done"]
  /\ IF granted
       THEN /\ audioStreamRef' = i
            /\ stream' = [stream EXCEPT ![i] = "live"]
            /\ isSessionActiveRef' = TRUE
            /\ promise' = [promise EXCEPT ![i] = "pending"]
            /\ chan' = [chan EXCEPT ![i] = "connecting"]
            /\ sessionPromiseRef' = i
            /\ stopCalls' = 0
            /\ UNCHANGED <<startFailed, errorMsg>>
       ELSE /\ errorMsg' = "Failed to start audio session. Please check permissions."
            /\ startFailed' = [startFailed EXCEPT ![i] = TRUE]
            /\ UNCHANGED <<audioStreamRef, stream, isSessionActiveRef, promise,
                           chan, sessionPromiseRef, stopCalls>>
  /\ appState' = "ACTIVE"
  /\ UNCHANGED <<variant, nStarts, trackStops, closeCalls, pendingClose,
                 procNode, procDisconnects, srcNode, srcDisconnects, ctxTime,
                 nMsgs, nCalls, task, sources, sentResponses, threw, nDelivered,
                 timeline, captureVars, surfaced, stoppedAt, processorRef, nextStartTimeRef, scheduledSourcesRef, sourceRef,
                 outputAudioContextRef, isConnected, isSpeaking, collectedData,
                 hasClickedPayment, appVars>>

handleEndConsultation ==
  /\ variant = "hook"
  /\ appState \in {"CONNECTING", "ACTIVE"}
  /\ stopSession(chan)
  /\ stopSessionFrame
  /\ appState' = "WELCOME"
  /\ UNCHANGED <<nMsgs, nCalls, task, sentResponses, threw, nDelivered,
                 timeline, captureVars, surfaced, errorMsg, collectedData,
                 hasClickedPayment>>

handleReset ==
  /\ variant = "hook"
  /\ appState \in {"REVIEW", "SEND", "ERROR"}
  /\ collectedData' = NoData
  /\ errorMsg' = "null"
  /\ hasClickedPayment' = FALSE
  /\ appState' = "WELCOME"
  /\ UNCHANGED <<variant, envVars, sharedVars, hookVars, appVars>>

\* onopen of the hook's channel i, then the connect promise resolves and the
\* close a stopSession queued on it while it was pending runs.
Hook_onopen(i) ==
  /\ variant = "hook"
  /\ chan[i] = "connecting"
  /\ isConnected' = TRUE
  /\ IF audioStreamRef = 0
       THEN UNCHANGED <<sourceRef, srcNode, processorRef, procNode>>
       ELSE /\ sourceRef' = i
            /\ srcNode' = [srcNode EXCEPT ![i] = "connected"]
            /\ processorRef' = i
            /\ procNode' = [procNode EXCEPT ![i] = "connected"]
  /\ promise' = [promise EXCEPT ![i] = "resolved"]
  /\ IF pendingClose[i]
       THEN /\ chan' = [chan EXCEPT ![i] = "closing"]
            /\ closeCalls' = [closeCalls EXCEPT ![i] = @ + 1]
            /\ pendingClose' = [pendingClose EXCEPT ![i] = FALSE]
       ELSE /\ chan' = [chan EXCEPT ![i] = "open"]
            /\ UNCHANGED <<closeCalls, pendingClose>>
  /\ UNCHANGED <<variant, nStarts, startPc, startFailed, stream, trackStops,
                 srcDisconnects, procDisconnects, ctxTime, nMsgs, nCalls, task,
                 sources, sentResponses, threw, stopCalls, nDelivered, timeline, captureVars, surfaced, stoppedAt, sessionPromiseRef,
                 nextStartTimeRef, isSessionActiveRef, scheduledSourcesRef,
                 audioStreamRef, outputAudioContextRef, isSpeaking,
                 hookAppVars, appVars>>

\* what the engine held at the call of onDataCollected(data) that surfaced
\* a validation error: the call comes before the handler's stopSession()
Surfaced(was, data) ==
  IF validatePrescriptionData(sanitizeData(data)) THEN was
  ELSE IF isSessionActiveRef \/ audioStreamRef # 0 \/ sessionPromiseRef # 0
    THEN "active" ELSE "ended"

\* the count of records surfaced for channel i after onDataCollected(data):
\* handleDataCollected stores the record when it is valid
Delivered(cnt, i, data) ==
  IF validatePrescriptionData(sanitizeData(data))
    THEN [cnt EXCEPT ![i] = @ + 1] ELSE cnt

\* handleDataCollected(data), for data that sanitizeData accepts
handleDataCollected(data) ==
  IF validatePrescriptionData(sanitizeData(data))
    THEN /\ collectedData' = sanitizeData(data)
         /\ appState' = "REVIEW"
         /\ UNCHANGED errorMsg
    ELSE /\ errorMsg' = "Some information appears incomplete. Please try again."
         /\ appState' = "ERROR"
         /\ UNCHANGED collectedData

\* A faulty tool-call part of onmessage, for comparison: the stopSession()
\* call is left out.  C10_SubmitEndsHookSession fails with it.
Hook_onmessage_toolCall_noStop(i, n, m, j) ==
  /\ ~SanitizeThrows(m.calls[j].args)
  /\ handleDataCollected(m.calls[j].args)
  /\ nDelivered' = Delivered(nDelivered, i, m.calls[j].args)
  /\ surfaced' = Surfaced(surfaced, m.calls[j].args)
  /\ sentResponses' = SendToolResponse(sentResponses, chan, i, <<n, j>>)
  /\ task' = [task EXCEPT ![n] = [NoTask EXCEPT !.pc = "done", !.sess = i]]
  /\ UNCHANGED <<startPc, startFailed, stream, trackStops, promise, chan,
                 closeCalls, pendingClose, procNode, procDisconnects, srcNode,
                 srcDisconnects, ctxTime, sources, threw, stopCalls, timeline,
                 captureVars, stoppedAt, sharedVars, hookVars,
                 hasClickedPayment>>

\* onmessage, tool-call part: the first submitPrescriptionRequest call (at
\* index j) is handled and the handler returns.
Hook_onmessage_toolCall(i, n, m, j) ==
  IF SanitizeThrows(m.calls[j].args)
    THEN \* onDataCollected throws: the async handler rejects here
         /\ threw' = threw \cup {"onmessage"}
         /\ task' = [task EXCEPT ![n] = [NoTask EXCEPT !.pc = "threw", !.sess = i]]
         /\ UNCHANGED <<startPc, startFailed, stream, trackStops, promise, chan,
                        closeCalls, pendingClose, procNode, procDisconnects,
                        srcNode, srcDisconnects, ctxTime, sources,
                        sentResponses, stopCalls, nDelivered, timeline, captureVars, surfaced, stoppedAt, sharedVars, hookVars, hookAppVars>>
    ELSE /\ handleDataCollected(m.calls[j].args)
         /\ sentResponses' = SendToolResponse(sentResponses, chan, i, <<n, j>>)
         /\ nDelivered' = Delivered(nDelivered, i, m.calls[j].args)
         /\ surfaced' = Surfaced(surfaced, m.calls[j].args)
         /\ stopSession(chan)
         /\ task' = [task EXCEPT ![n] = [NoTask EXCEPT !.pc = "done", !.sess = i]]
         /\ UNCHANGED <<startPc, startFailed, promise, ctxTime, threw,
                        timeline, captureVars, nextStartTimeRef,
                        outputAudioContextRef, hasClickedPayment>>

\* the interruption block of both engines, on a playback set and timeline
InterruptSources(srcs, set, interrupted) ==
  IF interrupted THEN StopSources(srcs, set) ELSE srcs
InterruptSet(set, interrupted) == IF interrupted THEN {} ELSE set
InterruptTime(t, interrupted) == IF interrupted THEN 0 ELSE t

\* the timeline record after a chunk arrived at clock c, after the chunk of
\* message n was scheduled, and after the interruption block ran at clock c
Arrived(tl, c) == [tl EXCEPT !.arr = c]
Scheduled(n) == [last |-> n, arr |-> -1, cut |-> -1]
InterruptTimeline(tl, c, interrupted) ==
  IF interrupted THEN [last |-> 0, arr |-> -1, cut |-> c] ELSE tl

\* currentTime of the output context numbered ctx (0: there is none)
Clock(ctx) == IF ctx = 0 THEN 0 ELSE ctxTime[ctx]

\* onmessage, audio and interruption part, up to the await of the decode
Hook_onmessage_audio(i, n, m) ==
  /\ IF m.audio /\ outputAudioContextRef # 0
       THEN /\ isSpeaking' = TRUE
            /\ nextStartTimeRef' =
                 Max(nextStartTimeRef, ctxTime[outputAudioContextRef])
            /\ task' = [task EXCEPT ![n] =
                 [pc |-> "decode", sess |-> i, ctx |-> outputAudioContextRef,
                  interrupted |-> m.interrupted, calls |-> <<>>, k |-> 0]]
            /\ timeline' = Arrived(timeline, ctxTime[outputAudioContextRef])
            /\ UNCHANGED <<sources, scheduledSourcesRef>>
       ELSE /\ sources' = InterruptSources(sources, scheduledSourcesRef, m.interrupted)
            /\ scheduledSourcesRef' = InterruptSet(scheduledSourcesRef, m.interrupted)
            /\ nextStartTimeRef' = InterruptTime(nextStartTimeRef, m.interrupted)
            /\ isSpeaking' = IF m.interrupted THEN FALSE ELSE isSpeaking
            /\ timeline' = InterruptTimeline(timeline, Clock(outputAudioContextRef),
                                             m.interrupted)
            /\ task' = [task EXCEPT ![n] = [NoTask EXCEPT !.pc = "done", !.sess = i]]
  /\ UNCHANGED <<startPc, startFailed, stream, trackStops, promise, chan,
                 closeCalls, pendingClose, procNode, procDisconnects, srcNode,
                 srcDisconnects, ctxTime, sentResponses, threw, stopCalls, nDelivered, captureVars, surfaced, stoppedAt, processorRef,
                 sessionPromiseRef, isSessionActiveRef, audioStreamRef,
                 sourceRef, outputAudioContextRef, isConnected, hookAppVars>>

\* onmessage of the hook's channel i delivering message m
Hook_onmessage(i, m) ==
  /\ variant = "hook"
  /\ chan[i] \in {"open", "closing"}
  /\ nMsgs < MaxMsgs
  /\ nMsgs' = nMsgs + 1
  /\ nCalls' = [nCalls EXCEPT ![nMsgs + 1] = Len(m.calls)]
  /\ IF FirstSubmit(m.calls) # 0
       THEN Hook_onmessage_toolCall(i, nMsgs + 1, m, FirstSubmit(m.calls))
       ELSE Hook_onmessage_audio(i, nMsgs + 1, m)
  /\ UNCHANGED <<variant, nStarts, appVars>>

\* the decode awaited by the hook's onmessage settles: decoded with duration
\* dur, or rejected (ok = FALSE), and the handler runs to its end.
Hook_decodeSettles(n, ok, dur) ==
  /\ variant = "hook"
  /\ task[n].pc = "decode"
  /\ IF ok
       THEN LET src == [st |-> "playing", start |-> nextStartTimeRef,
                        dur |-> dur, ctx |-> task[n].ctx]
                srcs == [sources EXCEPT ![n] = src]
                set == scheduledSourcesRef \cup {n}
            IN /\ sources' = InterruptSources(srcs, set, task[n].interrupted)
               /\ scheduledSourcesRef' = InterruptSet(set, task[n].interrupted)
               /\ nextStartTimeRef' =
                    InterruptTime(nextStartTimeRef + dur, task[n].interrupted)
               /\ isSpeaking' = IF task[n].interrupted THEN FALSE ELSE isSpeaking
               /\ timeline' = InterruptTimeline(Scheduled(n), Clock(task[n].ctx),
                                                task[n].interrupted)
               /\ task' = [task EXCEPT ![n] =
                    [NoTask EXCEPT !.pc = "done", !.sess = task[n].sess]]
               /\ UNCHANGED threw
       ELSE /\ threw' = threw \cup {"onmessage"}
            /\ task' = [task EXCEPT ![n] =
                 [NoTask EXCEPT !.pc = "threw", !.sess = task[n].sess]]
            /\ UNCHANGED <<sources, scheduledSourcesRef, nextStartTimeRef,
                           isSpeaking, timeline>>
  /\ UNCHANGED <<variant, nStarts, startPc, startFailed, stream, trackStops,
                 promise, chan, closeCalls, pendingClose, procNode,
                 procDisconnects, srcNode, srcDisconnects, ctxTime, nMsgs,
                 nCalls, stopCalls, nDelivered, captureVars, surfaced, stoppedAt, sentResponses, processorRef, sessionPromiseRef,
                 isSessionActiveRef, audioStreamRef, sourceRef,
                 outputAudioContextRef, isConnected, hookAppVars, appVars>>

Hook_onclose(i) ==
  /\ variant = "hook"
  /\ chan[i] \in {"open", "closing", "failed"}
  /\ chan' = [chan EXCEPT ![i] = "closed"]
  /\ isConnected' = FALSE
  /\ isSpeaking' = FALSE
  /\ UNCHANGED <<variant, nStarts, startPc, startFailed, stream, trackStops,
                 promise, closeCalls, pendingClose, procNode, procDisconnects,
                 srcNode, srcDisconnects, ctxTime, nMsgs, nCalls, task, sources,
                 sentResponses, threw, stopCalls, nDelivered, timeline, captureVars, surfaced, stoppedAt, sharedVars, isSessionActiveRef,
                 scheduledSourcesRef, audioStreamRef, sourceRef,
                 outputAudioContextRef, hookAppVars, appVars>>

Hook_onerror(i) ==
  /\ variant = "hook"
  /\ chan[i] \in {"connecting", "open", "closing"}
  /\ errorMsg' = "Connection error occurred. Please try again."
  /\ appState' = "ERROR"
  /\ stopSession([chan EXCEPT ![i] = "failed"])
  /\ stopSessionFrame
  /\ UNCHANGED <<nMsgs, nCalls, task, sentResponses, threw, nDelivered,
                 timeline, captureVars, surfaced, collectedData,
                 hasClickedPayment>>

\* ----------------------------------------------------------------- App.tsx
\* cleanupAudio, run by handleDisconnect.  source.stop() is not guarded
\* here: it throws on a node that was never started.
cleanupAudio ==
  /\ stopCalls' = CountStop(stopCalls)
  /\ stoppedAt' = nStarts
  /\ threw' = IF \E n \in sourcesRef : sources[n].st = "none"
                THEN threw \cup {"cleanupAudio"} ELSE threw
  /\ IF processorRef # 0
       THEN /\ procNode' = [procNode EXCEPT ![processorRef] = "disconnected"]
            /\ procDisconnects' = [procDisconnects EXCEPT ![processorRef] = @ + 1]
       ELSE UNCHANGED <<procNode, procDisconnects>>
  /\ processorRef' = 0
  /\ IF inputSourceRef # 0
       THEN /\ srcNode' = [srcNode EXCEPT ![inputSourceRef] = "disconnected"]
            /\ srcDisconnects' = [srcDisconnects EXCEPT ![inputSourceRef] = @ + 1]
       ELSE UNCHANGED <<srcNode, srcDisconnects>>
  /\ inputSourceRef' = 0
  /\ audioContextRef' = 0
  /\ sources' = StopSources(sources, sourcesRef)
  /\ sourcesRef' = {}

\* handleConnect in voice mode: connectToGeminiLive up to its await of
\* getUserMedia
connectToGeminiLive ==
  /\ variant = "app"
  /\ ~isTextMode
  /\ status \notin {"connected", "connecting"}
  /\ nStarts < MaxSessions
  /\ status' = "connecting"
  /\ hasError' = "null"
  /\ showPayment' = FALSE
  /\ nStarts' = nStarts + 1
  /\ startPc' = [startPc EXCEPT ![nStarts + 1] = "awaitMic"]
  /\ UNCHANGED <<variant, startFailed, stream, trackStops, promise, chan,
                 closeCalls, pendingClose, procNode, procDisconnects, srcNode,
                 srcDisconnects, ctxTime, nMsgs, nCalls, task, sources,
                 sentResponses, threw, stopCalls, nDelivered, timeline, captureVars, surfaced, stoppedAt, sharedVars, hookVars, hookAppVars,
                 isTextMode, isProcessingTool, audioContextRef, inputSourceRef,
                 sourcesRef, chatSessionRef>>

\* connectToGeminiLive resumed by getUserMedia: the rest of its try block, or
\* its catch block
connectToGeminiLive_resume(i, granted) ==
  /\ variant = "app"
  /\ startPc[i] = "awaitMic"
  /\ startPc' = [startPc EXCEPT ![i] = "done"]
  /\ IF granted
       THEN /\ stream' = [stream EXCEPT ![i] = "live"]
            /\ audioContextRef' = i
            /\ inputSourceRef' = i
            /\ srcNode' = [srcNode EXCEPT ![i] = "created"]
            /\ processorRef' = i
            /\ procNode' = [procNode EXCEPT ![i] = "created"]
            /\ promise' = [promise EXCEPT ![i] = "pending"]
            /\ chan' = [chan EXCEPT ![i] = "connecting"]
            /\ sessionPromiseRef' = i
            /\ stopCalls' = 0
            /\ UNCHANGED <<startFailed, hasError, isTextMode, status>>
       ELSE /\ hasError' = "Microphone access failed. Switched to text mode."
            /\ isTextMode' = TRUE
            /\ status' = "disconnected"
            /\ startFailed' = [startFailed EXCEPT ![i] = TRUE]
            /\ UNCHANGED <<stream, audioContextRef, inputSourceRef, srcNode,
                           processorRef, procNode, promise, chan,
                           sessionPromiseRef, stopCalls>>
  /\ UNCHANGED <<variant, nStarts, trackStops, closeCalls, pendingClose,
                 procDisconnects, srcDisconnects, ctxTime, nMsgs, nCalls, task,
                 sources, sentResponses, threw, nDelivered, timeline, captureVars, surfaced, stoppedAt,
                 nextStartTimeRef, hookVars,
                 hookAppVars, showPayment, isProcessingTool, sourcesRef,
                 chatSessionRef>>

\* handleConnect in text mode
startTextSession ==
  /\ variant = "app"
  /\ isTextMode
  /\ status \notin {"connected", "connecting"}
  /\ status' = "connected"
  /\ chatSessionRef' = TRUE
  /\ UNCHANGED <<variant, envVars, sharedVars, hookVars, hookAppVars, hasError,
                 showPayment, isTextMode, isProcessingTool, audioContextRef,
                 inputSourceRef, sourcesRef>>

\* the mode toggle, offered while the status is not connected
toggleTextMode ==
  /\ variant = "app"
  /\ status # "connected"
  /\ isTextMode' = ~isTextMode
  /\ UNCHANGED <<variant, envVars, sharedVars, hookVars, hookAppVars, status,
                 hasError, showPayment, isProcessingTool, audioContextRef,
                 inputSourceRef, sourcesRef, chatSessionRef>>

handleDisconnect ==
  /\ variant = "app"
  /\ status = "connected"
  /\ cleanupAudio
  /\ sessionPromiseRef' = 0
  /\ chatSessionRef' = FALSE
  /\ status' = "disconnected"
  /\ showPayment' = FALSE
  /\ UNCHANGED <<variant, nStarts, startPc, startFailed, stream, trackStops,
                 promise, chan, closeCalls, pendingClose, ctxTime, nMsgs,
                 nCalls, task, sentResponses, nDelivered, timeline, captureVars, surfaced,
                 nextStartTimeRef, hookVars,
                 hookAppVars, hasError, isTextMode, isProcessingTool>>

App_onopen(i) ==
  /\ variant = "app"
  /\ chan[i] = "connecting"
  /\ chan' = [chan EXCEPT ![i] = "open"]
  /\ promise' = [promise EXCEPT ![i] = "resolved"]
  /\ status' = "connected"
  /\ srcNode' = IF inputSourceRef # 0
                  THEN [srcNode EXCEPT ![inputSourceRef] = "connected"]
                  ELSE srcNode
  /\ procNode' = IF processorRef # 0
                   THEN [procNode EXCEPT ![processorRef] = "connected"]
                   ELSE procNode
  /\ UNCHANGED <<variant, nStarts, startPc, startFailed, stream, trackStops,
                 closeCalls, pendingClose, procDisconnects, srcDisconnects,
                 ctxTime, nMsgs, nCalls, task, sources, sentResponses, threw, stopCalls, nDelivered, timeline, captureVars, surfaced, stoppedAt,
                 sharedVars, hookVars, hookAppVars, hasError, showPayment,
                 isTextMode, isProcessingTool, audioContextRef, inputSourceRef,
                 sourcesRef, chatSessionRef>>

App_onclose(i) ==
  /\ variant = "app"
  /\ chan[i] \in {"open", "closing", "failed"}
  /\ chan' = [chan EXCEPT ![i] = "closed"]
  /\ status' = "disconnected"
  /\ UNCHANGED <<variant, nStarts, startPc, startFailed, stream, trackStops,
                 promise, closeCalls, pendingClose, procNode, procDisconnects,
                 srcNode, srcDisconnects, ctxTime, nMsgs, nCalls, task, sources,
                 sentResponses, threw, stopCalls, nDelivered, timeline, captureVars, surfaced, stoppedAt, sharedVars, hookVars, hookAppVars,
                 hasError, showPayment, isTextMode, isProcessingTool,
                 audioContextRef, inputSourceRef, sourcesRef, chatSessionRef>>

App_onerror(i) ==
  /\ variant = "app"
  /\ chan[i] \in {"connecting", "open", "closing"}
  /\ chan' = [chan EXCEPT ![i] = "failed"]
  /\ hasError' = "Connection Error. Switching to Text Mode."
  /\ status' = "disconnected"
  /\ isTextMode' = TRUE
  /\ UNCHANGED <<variant, nStarts, startPc, startFailed, stream, trackStops,
                 promise, closeCalls, pendingClose, procNode, procDisconnects,
                 srcNode, srcDisconnects, ctxTime, nMsgs, nCalls, task, sources,
                 sentResponses, threw, stopCalls, nDelivered, timeline, captureVars, surfaced, stoppedAt, sharedVars, hookVars, hookAppVars,
                 showPayment, isProcessingTool, audioContextRef, inputSourceRef,
                 sourcesRef, chatSessionRef>>

\* A faulty executeTool, for comparison: requestPayment waits on the
\* notification services before it returns.
executeTool_paymentAwaits(c) ==
  IF c.name = "unknownTool" THEN "returns"
  ELSE IF c.name = "requestPayment" \/ c.args.present THEN "awaits"
  ELSE "throws"

\* executeTool(name, args) up to its first suspension: it returns a result,
\* awaits the notification services, or throws (reqArgs.patientName read on
\* undefined arguments; there is no catch clause, only finally).
executeTool(c) ==
  IF c.name = "requestPayment" THEN "returns"
  ELSE IF c.name = "submitPrescriptionRequest"
    THEN (IF c.args.present THEN "awaits" ELSE "throws")
  ELSE "returns"

\* the tool-call loop of App.tsx's onmessage from call k on, for message n of
\* channel s: r carries the responses sent, showPayment and isProcessingTool.
RECURSIVE ToolLoop(_, _, _, _, _)
ToolLoop(calls, k, r, s, n) ==
  IF k > Len(calls) THEN [r EXCEPT !.pc = "done", !.k = 0]
  ELSE IF executeTool(calls[k]) = "returns"
    THEN ToolLoop(calls, k + 1,
                  [r EXCEPT !.pay = (@ \/ calls[k].name = "requestPayment"),
                            !.proc = FALSE,
                            !.sent = SendToolResponse(@, chan, s, <<n, k>>)],
                  s, n)
  ELSE IF executeTool(calls[k]) = "awaits"
    THEN [r EXCEPT !.pc = "email", !.k = k, !.proc = TRUE]
  ELSE [r EXCEPT !.pc = "threw", !.k = 0, !.proc = FALSE]

\* onmessage of App.tsx after its audio block: interruption, then tool calls
App_afterAudio(n, i, interrupted, calls, srcs, set, t, tl) ==
  LET r == ToolLoop(calls, 1,
                    [pc |-> "done", k |-> 0, sent |-> sentResponses,
                     pay |-> showPayment, proc |-> isProcessingTool], i, n)
  IN /\ sources' = InterruptSources(srcs, set, interrupted)
     /\ sourcesRef' = InterruptSet(set, interrupted)
     /\ nextStartTimeRef' = InterruptTime(t, interrupted)
     /\ timeline' = InterruptTimeline(tl, ctxTime[i], interrupted)
     /\ sentResponses' = r.sent
     /\ showPayment' = r.pay
     /\ isProcessingTool' = r.proc
     /\ threw' = IF r.pc = "threw" THEN threw \cup {"onmessage"} ELSE threw
     /\ task' = [task EXCEPT ![n] =
          IF r.pc = "email"
            THEN [pc |-> "email", sess |-> i, ctx |-> 0, interrupted |-> FALSE,
                  calls |-> calls, k |-> r.k]
            ELSE [NoTask EXCEPT !.pc = r.pc, !.sess = i]]

App_onmessage(i, m) ==
  /\ variant = "app"
  /\ chan[i] \in {"open", "closing"}
  /\ nMsgs < MaxMsgs
  /\ nMsgs' = nMsgs + 1
  /\ nCalls' = [nCalls EXCEPT ![nMsgs + 1] = Len(m.calls)]
  /\ IF m.audio
       THEN /\ nextStartTimeRef' = Max(nextStartTimeRef, ctxTime[i])
            /\ task' = [task EXCEPT ![nMsgs + 1] =
                 [pc |-> "decode", sess |-> i, ctx |-> i,
                  interrupted |-> m.interrupted, calls |-> m.calls, k |-> 0]]
            /\ timeline' = Arrived(timeline, ctxTime[i])
            /\ UNCHANGED <<sources, sourcesRef, sentResponses, showPayment,
                           isProcessingTool, threw>>
       ELSE App_afterAudio(nMsgs + 1, i, m.interrupted, m.calls, sources,
                           sourcesRef, nextStartTimeRef, timeline)
  /\ UNCHANGED <<variant, nStarts, startPc, startFailed, stream, trackStops,
                 promise, chan, closeCalls, pendingClose, procNode,
                 procDisconnects, srcNode, srcDisconnects, ctxTime,
                 processorRef, stopCalls, nDelivered, captureVars, surfaced, stoppedAt, sessionPromiseRef, hookVars, hookAppVars, status,
                 hasError, isTextMode, audioContextRef, inputSourceRef,
                 chatSessionRef>>

\* the decode awaited by App.tsx's onmessage settles; a rejection is caught
App_decodeSettles(n, ok, dur) ==
  /\ variant = "app"
  /\ task[n].pc = "decode"
  /\ IF ok
       THEN App_afterAudio(n, task[n].sess, task[n].interrupted, task[n].calls,
              [sources EXCEPT ![n] =
                 [st |-> "playing", start |-> nextStartTimeRef, dur |-> dur,
                  ctx |-> task[n].ctx]],
              sourcesRef \cup {n}, nextStartTimeRef + dur, Scheduled(n))
       ELSE App_afterAudio(n, task[n].sess, task[n].interrupted, task[n].calls,
              sources, sourcesRef, nextStartTimeRef, timeline)
  /\ UNCHANGED <<variant, nStarts, startPc, startFailed, stream, trackStops,
                 promise, chan, closeCalls, pendingClose, procNode,
                 procDisconnects, srcNode, srcDisconnects, ctxTime, nMsgs,
                 nCalls, stopCalls, nDelivered, captureVars, surfaced, stoppedAt, processorRef, sessionPromiseRef, hookVars, hookAppVars,
                 status, hasError, isTextMode, audioContextRef, inputSourceRef,
                 chatSessionRef>>

\* sendEmailNotification settles (it catches its own errors): executeTool
\* goes on to await sendWhatsAppNotification
App_emailSettles(n) ==
  /\ variant = "app"
  /\ task[n].pc = "email"
  /\ task' = [task EXCEPT ![n].pc = "whatsapp"]
  /\ UNCHANGED <<variant, nStarts, startPc, startFailed, stream, trackStops,
                 promise, chan, closeCalls, pendingClose, procNode,
                 procDisconnects, srcNode, srcDisconnects, ctxTime, nMsgs,
                 nCalls, sources, sentResponses, threw, stopCalls, nDelivered, timeline, captureVars, surfaced, stoppedAt, sharedVars, hookVars,
                 hookAppVars, appVars>>

\* sendWhatsAppNotification settles: executeTool returns its result through
\* finally, the response is sent and the loop goes on with the next call
App_whatsappSettles(n) ==
  /\ variant = "app"
  /\ task[n].pc = "whatsapp"
  /\ LET r == ToolLoop(task[n].calls, task[n].k + 1,
                       [pc |-> "done", k |-> 0,
                        sent |-> SendToolResponse(sentResponses, chan,
                                                  task[n].sess, <<n, task[n].k>>),
                        pay |-> showPayment, proc |-> FALSE],
                       task[n].sess, n)
     IN /\ sentResponses' = r.sent
        /\ showPayment' = r.pay
        /\ isProcessingTool' = r.proc
        /\ threw' = IF r.pc = "threw" THEN threw \cup {"onmessage"} ELSE threw
        /\ task' = [task EXCEPT ![n] =
             IF r.pc = "email"
               THEN [task[n] EXCEPT !.pc = "email", !.k = r.k]
               ELSE [NoTask EXCEPT !.pc = r.pc, !.sess = task[n].sess]]
  /\ UNCHANGED <<variant, nStarts, startPc, startFailed, stream, trackStops,
                 promise, chan, closeCalls, pendingClose, procNode,
                 procDisconnects, srcNode, srcDisconnects, ctxTime, nMsgs,
                 nCalls, stopCalls, nDelivered, timeline, captureVars, surfaced, stoppedAt, sources, sharedVars, hookVars, hookAppVars, status,
                 hasError, isTextMode, audioContextRef, inputSourceRef,
                 sourcesRef, chatSessionRef>>

\* the "Proceed" button of the review view (shown in REVIEW with a record)
handleProceedToPayment ==
  /\ variant = "hook"
  /\ appState = "REVIEW"
  /\ collectedData # NoData
  /\ appState' = "PAYMENT"
  /\ UNCHANGED <<variant, envVars, sharedVars, hookVars, appVars, errorMsg,
                 collectedData, hasClickedPayment>>

\* the "Pay Processing Fee" button of the payment view
handlePaymentClick ==
  /\ variant = "hook"
  /\ appState = "PAYMENT"
  /\ hasClickedPayment' = TRUE
  /\ UNCHANGED <<variant, envVars, sharedVars, hookVars, appVars, appState,
                 errorMsg, collectedData>>

\* A faulty confirm button, for comparison: it is shown before the payment
\* link was clicked.
handlePaymentCompleted_alwaysShown ==
  /\ variant = "hook"
  /\ appState = "PAYMENT"
  /\ appState' = "SEND"
  /\ UNCHANGED <<variant, envVars, sharedVars, hookVars, appVars, errorMsg,
                 collectedData, hasClickedPayment>>

\* the "I have completed payment" button, rendered in the payment view only
\* when hasClickedPayment is set
handlePaymentCompleted ==
  /\ variant = "hook"
  /\ appState = "PAYMENT"
  /\ hasClickedPayment
  /\ appState' = "SEND"
  /\ UNCHANGED <<variant, envVars, sharedVars, hookVars, appVars, errorMsg,
                 collectedData, hasClickedPayment>>

\* ------------------------------------------------------------ environment
\* the output AudioContext of start call i exists
CtxCreated(i) ==
  IF variant = "hook" THEN i <= nStarts ELSE stream[i] # "none"

\* the audio clocks advance, up to a limit
TickTo(limit) ==
  /\ \E i \in Sessions : CtxCreated(i)
  /\ \A i \in Sessions : CtxCreated(i) => ctxTime[i] < limit
  /\ ctxTime' = [i \in Sessions |->
                   IF CtxCreated(i) THEN ctxTime[i] + 1 ELSE ctxTime[i]]
  /\ UNCHANGED <<variant, nStarts, startPc, startFailed, stream, trackStops,
                 promise, chan, closeCalls, pendingClose, procNode,
                 procDisconnects, srcNode, srcDisconnects, nMsgs, nCalls, task,
                 sources, sentResponses, threw, stopCalls, nDelivered, timeline, captureVars, surfaced, stoppedAt, sharedVars, hookVars,
                 hookAppVars, appVars>>

Tick == TickTo(MaxClock)

\* the 'ended' event of the source of message n: it was stopped, or it
\* played to its end; the engine's listener runs
SourceEnded(n) ==
  /\ \/ sources[n].st = "stopped"
     \/ /\ sources[n].st = "playing"
        /\ ctxTime[sources[n].ctx] >= sources[n].start + sources[n].dur
  /\ sources' = [sources EXCEPT ![n].st = "ended"]
  /\ IF variant = "hook"
       THEN /\ scheduledSourcesRef' = scheduledSourcesRef \ {n}
            /\ isSpeaking' = IF scheduledSourcesRef \ {n} = {}
                               THEN FALSE ELSE isSpeaking
            /\ UNCHANGED sourcesRef
       ELSE /\ sourcesRef' = sourcesRef \ {n}
            /\ UNCHANGED <<scheduledSourcesRef, isSpeaking>>
  /\ UNCHANGED <<variant, nStarts, startPc, startFailed, stream, trackStops,
                 promise, chan, closeCalls, pendingClose, procNode,
                 procDisconnects, srcNode, srcDisconnects, ctxTime, nMsgs,
                 nCalls, task, sentResponses, threw, stopCalls, nDelivered, timeline, captureVars, surfaced, stoppedAt, sharedVars,
                 isSessionActiveRef, audioStreamRef, sourceRef,
                 outputAudioContextRef, isConnected, hookAppVars, status,
                 hasError, showPayment, isTextMode, isProcessingTool,
                 audioContextRef, inputSourceRef, chatSessionRef>>

\* ai.live.connect rejects its promise without opening the socket: no
\* callback runs and the reactions queued on the promise are dropped
ConnectRejected(i) ==
  /\ chan[i] = "connecting"
  /\ promise[i] = "pending"
  /\ promise' = [promise EXCEPT ![i] = "rejected"]
  /\ chan' = [chan EXCEPT ![i] = "closed"]
  /\ pendingClose' = [pendingClose EXCEPT ![i] = FALSE]
  /\ UNCHANGED <<variant, nStarts, startPc, startFailed, stream, trackStops,
                 closeCalls, procNode, procDisconnects, srcNode, srcDisconnects,
                 ctxTime, nMsgs, nCalls, task, sources, sentResponses, threw, stopCalls, nDelivered, timeline, captureVars, surfaced, stoppedAt,
                 sharedVars, hookVars, hookAppVars, appVars>>

\* ------------------------------------------------------------------- spec
\* onaudioprocess of the capture node of start i: one frame is captured and
\* handed to sessionPromise.then(session => session.sendRealtimeInput(...)).
\* The callback returns at once; the frame waits on the promise while it is
\* pending, and in the socket's send buffer once it is resolved and the
\* socket is open (a socket that is no longer open discards it).  The hook
\* returns early when the session is not active.
onaudioprocess(i) ==
  /\ procNode[i] = "connected"
  /\ nFrames[i] < MaxFrames
  /\ nFrames' = [nFrames EXCEPT ![i] = @ + 1]
  /\ outbox' =
       IF /\ variant = "hook" => isSessionActiveRef
          /\ promise[i] = "pending" \/ (promise[i] = "resolved" /\ chan[i] = "open")
         THEN [outbox EXCEPT ![i] = Append(@, nFrames[i] + 1)]
         ELSE outbox
  /\ UNCHANGED <<variant, nStarts, startPc, startFailed, stream, trackStops,
                 promise, chan, closeCalls, pendingClose, procNode,
                 procDisconnects, srcNode, srcDisconnects, ctxTime, nMsgs,
                 nCalls, task, sources, sentResponses, threw, stopCalls,
                 nDelivered, timeline, surfaced, stoppedAt, sharedVars, hookVars,
                 hookAppVars, appVars>>

\* the network takes the oldest waiting frame of the open socket i
Transmit(i) ==
  /\ chan[i] = "open"
  /\ promise[i] = "resolved"
  /\ outbox[i] # <<>>
  /\ outbox' = [outbox EXCEPT ![i] = Tail(@)]
  /\ UNCHANGED <<variant, nStarts, startPc, startFailed, stream, trackStops,
                 promise, chan, closeCalls, pendingClose, procNode,
                 procDisconnects, srcNode, srcDisconnects, ctxTime, nMsgs,
                 nCalls, task, sources, sentResponses, threw, stopCalls,
                 nDelivered, nFrames, timeline, surfaced, stoppedAt, sharedVars,
                 hookVars, hookAppVars, appVars>>

Next ==
  \/ handleStartConsultation
  \/ \E i \in Sessions, granted \in BOOLEAN : startSession(i, granted)
  \/ handleEndConsultation
  \/ handleReset
  \/ \E i \in Sessions : Hook_onopen(i)
  \/ \E i \in Sessions, m \in Messages : Hook_onmessage(i, m)
  \/ \E n \in Msgs, ok \in BOOLEAN, dur \in Durations : Hook_decodeSettles(n, ok, dur)
  \/ \E i \in Sessions : Hook_onclose(i)
  \/ \E i \in Sessions : Hook_onerror(i)
  \/ connectToGeminiLive
  \/ \E i \in Sessions, granted \in BOOLEAN : connectToGeminiLive_resume(i, granted)
  \/ startTextSession
  \/ toggleTextMode
  \/ handleDisconnect
  \/ \E i \in Sessions : App_onopen(i)
  \/ \E i \in Sessions, m \in Messages : App_onmessage(i, m)
  \/ \E n \in Msgs, ok \in BOOLEAN, dur \in Durations : App_decodeSettles(n, ok, dur)
  \/ \E n \in Msgs : App_emailSettles(n)
  \/ \E n \in Msgs : App_whatsappSettles(n)
  \/ \E i \in Sessions : App_onclose(i)
  \/ \E i \in Sessions : App_onerror(i)
  \/ Tick
  \/ \E n \in Msgs : SourceEnded(n)
  \/ \E i \in Sessions : ConnectRejected(i)
  \/ \E i \in Sessions : onaudioprocess(i)
  \/ \E i \in Sessions : Transmit(i)
  \/ handleProceedToPayment
  \/ handlePaymentClick
  \/ handlePaymentCompleted

Spec == Init /\ [][Next]_vars

\* The complete system is checked in two scenarios, each a restriction of
\* what the environment does.
\*
\* Lifecycle scenario: up to MaxSessions starts; inbound messages carry audio
\* and interruptions but no tool calls.
AudioMessages == {m \in Messages : m.calls = <<>>}

NextLife ==
  \/ handleStartConsultation
  \/ \E i \in Sessions, granted \in BOOLEAN : startSession(i, granted)
  \/ handleEndConsultation
  \/ handleReset
  \/ \E i \in Sessions : Hook_onopen(i)
  \/ \E i \in Sessions, m \in AudioMessages : nMsgs < LifeMsgs /\ Hook_onmessage(i, m)
  \/ \E n \in Msgs, ok \in BOOLEAN, dur \in Durations : Hook_decodeSettles(n, ok, dur)
  \/ \E i \in Sessions : Hook_onclose(i)
  \/ \E i \in Sessions : Hook_onerror(i)
  \/ connectToGeminiLive
  \/ \E i \in Sessions, granted \in BOOLEAN : connectToGeminiLive_resume(i, granted)
  \/ startTextSession
  \/ toggleTextMode
  \/ handleDisconnect
  \/ \E i \in Sessions : App_onopen(i)
  \/ \E i \in Sessions, m \in AudioMessages : nMsgs < LifeMsgs /\ App_onmessage(i, m)
  \/ \E n \in Msgs, ok \in BOOLEAN, dur \in Durations : App_decodeSettles(n, ok, dur)
  \/ \E i \in Sessions : App_onclose(i)
  \/ \E i \in Sessions : App_onerror(i)
  \/ Tick
  \/ \E n \in Msgs : SourceEnded(n)
  \/ \E i \in Sessions : ConnectRejected(i)

SpecLife == Init /\ [][NextLife]_vars

\* Tool scenario: up to ToolSessions starts; inbound messages carry tool
\* calls only (no audio, so the audio clock is left out).
ToolMessages ==
  {m \in Messages : ~m.audio /\ ~m.interrupted /\ m.calls # <<>>}

NextTools ==
  \/ nStarts < ToolSessions /\ handleStartConsultation
  \/ \E i \in Sessions, granted \in BOOLEAN : startSession(i, granted)
  \/ handleEndConsultation
  \/ handleReset
  \/ \E i \in Sessions : Hook_onopen(i)
  \/ \E i \in Sessions, m \in ToolMessages : Hook_onmessage(i, m)
  \/ \E i \in Sessions : Hook_onclose(i)
  \/ \E i \in Sessions : Hook_onerror(i)
  \/ nStarts < ToolSessions /\ connectToGeminiLive
  \/ \E i \in Sessions, granted \in BOOLEAN : connectToGeminiLive_resume(i, granted)
  \/ handleDisconnect
  \/ \E i \in Sessions : App_onopen(i)
  \/ \E i \in Sessions, m \in ToolMessages : App_onmessage(i, m)
  \/ \E n \in Msgs : App_emailSettles(n)
  \/ \E n \in Msgs : App_whatsappSettles(n)
  \/ \E i \in Sessions : App_onclose(i)
  \/ \E i \in Sessions : App_onerror(i)

SpecTools == Init /\ [][NextTools]_vars

\* Playback scenario: up to PlaySessions starts, granted the microphone;
\* inbound messages carry audio and interruptions but no tool calls, and the
\* audio clock runs to PlayClock, far enough for a chunk to arrive after the
\* previous one has finished playing.
NextPlay ==
  \/ nStarts < PlaySessions /\ handleStartConsultation
  \/ \E i \in Sessions : startSession(i, TRUE)
  \/ handleEndConsultation
  \/ \E i \in Sessions : Hook_onopen(i)
  \/ \E i \in Sessions, m \in AudioMessages : Hook_onmessage(i, m)
  \/ \E n \in Msgs, ok \in BOOLEAN, dur \in 1..PlayDur : Hook_decodeSettles(n, ok, dur)
  \/ \E i \in Sessions : Hook_onclose(i)
  \/ nStarts < PlaySessions /\ connectToGeminiLive
  \/ \E i \in Sessions : connectToGeminiLive_resume(i, TRUE)
  \/ handleDisconnect
  \/ \E i \in Sessions : App_onopen(i)
  \/ \E i \in Sessions, m \in AudioMessages : App_onmessage(i, m)
  \/ \E n \in Msgs, ok \in BOOLEAN, dur \in 1..PlayDur : App_decodeSettles(n, ok, dur)
  \/ \E i \in Sessions : App_onclose(i)
  \/ TickTo(PlayClock)
  \/ \E n \in Msgs : SourceEnded(n)

SpecPlay == Init /\ [][NextPlay]_vars

\* Capture scenario: sessions are started, opened and stopped, the capture
\* callback fires up to MaxFrames times in each, and the network takes
\* frames whenever it can; no inbound messages.
NextCapture ==
  \/ handleStartConsultation
  \/ \E i \in Sessions : startSession(i, TRUE)
  \/ handleEndConsultation
  \/ \E i \in Sessions : Hook_onopen(i)
  \/ \E i \in Sessions : Hook_onclose(i)
  \/ connectToGeminiLive
  \/ \E i \in Sessions : connectToGeminiLive_resume(i, TRUE)
  \/ handleDisconnect
  \/ \E i \in Sessions : App_onopen(i)
  \/ \E i \in Sessions : App_onclose(i)
  \/ \E i \in Sessions : onaudioprocess(i)
  \/ \E i \in Sessions : Transmit(i)

SpecCapture == Init /\ [][NextCapture]_vars

\* Review scenario: the application around useLiveSession from the start of
\* a consultation through review and payment to SEND, with tool-call
\* messages only, some of them arriving late.
NextReview ==
  \/ handleStartConsultation
  \/ \E i \in Sessions, granted \in BOOLEAN : startSession(i, granted)
  \/ handleEndConsultation
  \/ handleReset
  \/ \E i \in Sessions : Hook_onopen(i)
  \/ \E i \in Sessions, m \in ToolMessages : Hook_onmessage(i, m)
  \/ \E i \in Sessions : Hook_onclose(i)
  \/ \E i \in Sessions : Hook_onerror(i)
  \/ handleProceedToPayment
  \/ handlePaymentClick
  \/ handlePaymentCompleted

SpecReview == Init /\ [][NextReview]_vars

\* ----------------------------------------------------------------- claims
\* times the response to function call id went out
RespCount(id) ==
  Cardinality({k \in 1..Len(sentResponses) : sentResponses[k] = id})

\* the onmessage invocation of message n has run to its end
Handled(n) == n <= nMsgs /\ task[n].pc \in {"done", "threw"}

\* every function call of message n got exactly one response
AllAnswered(n) == \A j \in 1..nCalls[n] : RespCount(<<n, j>>) = 1

\* C1: once the handling of a tool-call message with k function calls is
\* over, and its socket is still open, exactly k tool responses went out,
\* one for each call id of the message.
C1_OneResponsePerCall ==
  \A n \in Msgs :
    (Handled(n) /\ chan[task[n].sess] = "open") => AllAnswered(n)

\* C2: when the handler of one function call of a message fails, that call
\* is still answered (with the failure result) and so is every sibling call
\* of the same message.
C2_FailureIsIsolated ==
  \A n \in Msgs :
    (n <= nMsgs /\ task[n].pc = "threw" /\ nCalls[n] > 0) => AllAnswered(n)

\* the step is a user stop() of a voice session that was started and is
\* still held: handleEndConsultation (hook) or handleDisconnect (App.tsx)
UserStop ==
  \/ handleEndConsultation /\ isSessionActiveRef
  \/ handleDisconnect /\ ~chatSessionRef

\* C3: after stop() on an active session s, the tracks of its capture
\* stream are stopped, its capture nodes are disconnected, the playback set
\* is empty and close was requested on its channel.
C3_StopReleasesEverything ==
  [][\A s \in Sessions :
       (UserStop /\ sessionPromiseRef = s /\ chan[s] = "open")
         => /\ stream'[s] = "stopped"
            /\ procNode'[s] = "disconnected"
            /\ srcNode'[s] = "disconnected"
            /\ scheduledSourcesRef' = {} /\ sourcesRef' = {}
            /\ closeCalls'[s] >= 1]_vars

\* the step is the Closed (onclose) or Error (onerror) event of channel s
ClosedEvent(s) == Hook_onclose(s) \/ App_onclose(s)
ErrorEvent(s) == Hook_onerror(s) \/ App_onerror(s)

\* the application shows the session as Connecting or Active
ShownBusy ==
  IF variant = "hook" THEN appState \in {"CONNECTING", "ACTIVE"}
  ELSE status \in {"connecting", "connected"} /\ ~chatSessionRef

ShownIdle ==
  IF variant = "hook" THEN appState = "WELCOME" ELSE status = "disconnected"

ShownError ==
  IF variant = "hook" THEN appState = "ERROR" ELSE status = "error"

\* C4: when the channel s of the current session reports Closed or Error
\* while the session is Connecting or Active, the release routine runs
\* exactly once (the stream's tracks are stopped once, no capture node stays
\* connected) and the state ends Idle after a close, Error after a fault.
C4_ChannelEndReleases ==
  [][\A s \in Sessions :
       ((ClosedEvent(s) \/ ErrorEvent(s)) /\ sessionPromiseRef = s /\ ShownBusy)
         => /\ trackStops'[s] = 1
            /\ stream'[s] = "stopped"
            /\ procNode'[s] # "connected"
            /\ srcNode'[s] # "connected"
            /\ (ClosedEvent(s) => ShownIdle')
            /\ (ErrorEvent(s) => ShownError')]_vars

\* no capture or playback resource is referenced by the engine and it shows
\* no session
EngineIdle ==
  IF variant = "hook"
    THEN /\ ~isSessionActiveRef /\ ~isConnected /\ ~isSpeaking
         /\ audioStreamRef = 0 /\ sourceRef = 0 /\ processorRef = 0
         /\ sessionPromiseRef = 0 /\ scheduledSourcesRef = {}
    ELSE /\ status = "disconnected"
         /\ audioContextRef = 0 /\ inputSourceRef = 0 /\ processorRef = 0
         /\ sessionPromiseRef = 0 /\ sourcesRef = {} /\ ~chatSessionRef

\* the step runs stop(): stopSession (hook) or handleDisconnect (App.tsx)
StopStep == stopCalls' # stopCalls /\ stopCalls' > 0

\* C5: stop() never throws, whether it is called twice in a row or before
\* any start() succeeded; each resource is released at most once (tracks
\* stopped, nodes disconnected, channel closed); and stop() leaves the
\* engine idle.
C5_StopIsIdempotent ==
  /\ []("cleanupAudio" \notin threw)
  /\ [](\A i \in Sessions :
          /\ trackStops[i] <= 1 /\ closeCalls[i] <= 1
          /\ procDisconnects[i] <= 1 /\ srcDisconnects[i] <= 1)
  /\ [][StopStep => EngineIdle']_vars

\* stop() ran twice in a row after a session whose stream it released
C5_StoppedTwice ==
  /\ stopCalls = 2
  /\ \E i \in Sessions : trackStops[i] = 1 \/ procDisconnects[i] = 1

\* the message shown to the user, "null" when there is none
ShownMessage == IF variant = "hook" THEN errorMsg ELSE hasError

\* C6: when start call i of the useLiveSession engine fails (its catch block
\* ran), the application is in the Error state with the failure message,
\* and that failed start is never reported as Active.
C6_FailedStartIsError ==
  /\ [][\A i \in Sessions :
          (variant = "hook" /\ startFailed'[i] /\ ~startFailed[i])
            => (appState' = "ERROR" /\ errorMsg' # "null")]_vars
  /\ [](variant = "hook" /\ nStarts > 0 /\ startFailed[nStarts]
          => appState # "ACTIVE")

\* the latest start call ran into a fatal path: the microphone was refused,
\* the connect promise was rejected, or its channel reported an error
FatalPathTaken ==
  /\ nStarts > 0
  /\ \/ startFailed[nStarts]
     \/ promise[nStarts] = "rejected"
     \/ chan[nStarts] = "failed"

\* C7: the step that takes a fatal path surfaces a message for the user,
\* and after a fatal path of the latest start the session does not stay
\* Connecting or Active: it is at rest, where start() is offered again (at
\* once, or from the error screen).
C7_FatalPathReturnsToIdle ==
  /\ [][(FatalPathTaken' /\ ~FatalPathTaken) => ShownMessage' # "null"]_vars
  /\ [](FatalPathTaken => ~ShownBusy)

\* C8: at most one capture stream is live and at most one channel is open
\* at any time, whatever start() and stop() calls were made: a start() stops
\* what the session before it still holds.
C8_OneLiveSession ==
  /\ Cardinality({i \in Sessions : stream[i] = "live"}) <= 1
  /\ Cardinality({i \in Sessions : chan[i] = "open"}) <= 1

\* the playback set and the speaking flag of the running engine
PlaybackSet == IF variant = "hook" THEN scheduledSourcesRef ELSE sourcesRef

\* C9: stop() clears the session-active flag, and an audio chunk whose
\* decode finishes after stop() (no start since) is discarded: its source
\* is not started nor added to the playback set, and nextStartTime and
\* isSpeaking keep their values.
C9_LateChunkDiscarded ==
  /\ [][(StopStep /\ variant = "hook") => ~isSessionActiveRef']_vars
  /\ [][\A n \in Msgs :
          (stopCalls > 0 /\ task[n].pc = "decode" /\ task'[n].pc # "decode")
            => /\ sources'[n].st = "none"
               /\ PlaybackSet' = PlaybackSet
               /\ nextStartTimeRef' = nextStartTimeRef
               /\ isSpeaking' = isSpeaking]_vars

\* the arguments of a submitPrescriptionRequest call pass sanitizeData and
\* validatePrescriptionData
Accepted(args) ==
  ~SanitizeThrows(args) /\ validatePrescriptionData(sanitizeData(args))

\* the step is the hook's onmessage for message m, whose first
\* submitPrescriptionRequest call carries accepted arguments
HookSubmitAccepted(m) ==
  /\ variant = "hook"
  /\ nMsgs' = nMsgs + 1
  /\ FirstSubmit(m.calls) # 0
  /\ Accepted(m.calls[FirstSubmit(m.calls)].args)
  /\ \E i \in Sessions : Hook_onmessage(i, m)

\* the step is App.tsx's executeTool returning the success result of a
\* submitPrescriptionRequest call while the session is connected
AppSubmitSucceeds ==
  /\ variant = "app"
  /\ status = "connected"
  /\ \E n \in Msgs : App_whatsappSettles(n)

C11_RecordDeliveredOnce ==
  \A i \in Sessions : nDelivered[i] <= 1

\* the step schedules the chunk of message n: its source node is created and
\* started (the same step may go on to stop it, in the interruption block)
SchedStep(n) == sources[n].st = "none" /\ sources'[n].st # "none"

\* the end of the chunk scheduled last, by the schedule
LastEnd == sources[timeline.last].start + sources[timeline.last].dur

InterruptStep ==
  /\ timeline' # timeline
  /\ timeline'.last = 0 /\ timeline'.arr = -1 /\ timeline'.cut >= 0

\* C13: the interruption block leaves the playback set empty and
\* nextStartTime reset, and the first chunk scheduled after it starts at or
\* after the clock of the interruption, never at a time taken from before it.
C13_ScheduleRestartsFromClock ==
  [][/\ InterruptStep => (PlaybackSet' = {} /\ nextStartTimeRef' = 0)
     /\ \A n \in Msgs :
          (SchedStep(n) /\ timeline.last = 0 /\ timeline.cut >= 0)
            => sources'[n].start >= timeline.cut]_vars

\* a handler of the running engine is suspended at its await of the decode
DecodePending == \E n \in Msgs : task[n].pc = "decode"

\* C14: isSpeaking is true exactly when the playback set is non-empty. The
\* states in which a chunk has arrived and its decode is still awaited are
\* left out: every chunk passes through them.
C14_SpeakingIffPlaying ==
  (variant = "hook" /\ ~DecodePending)
    => (isSpeaking <=> scheduledSourcesRef # {})

\* C15: within a session nextStartTime never decreases from one step to the
\* next, except in the step that runs the interruption block (a new start
\* begins a new session).
C15_NextStartTimeMonotone ==
  [][nextStartTimeRef' < nextStartTimeRef
       => (InterruptStep \/ nStarts' # nStarts)]_vars

\* two chunks were scheduled back to back and nextStartTime has advanced
\* past both, ahead of the clock
C15_AdvancedPastTwoChunks ==
  \E p, n \in Msgs :
    /\ sources[p].st = "playing" /\ sources[n].st = "playing"
    /\ sources[n].start = sources[p].start + sources[p].dur
    /\ nextStartTimeRef = sources[n].start + sources[n].dur
    /\ nextStartTimeRef > Clock(sources[n].ctx)

\* the step resumes the handler of message n with a rejected decode
DecodeFails(n) ==
  task[n].pc = "decode" /\ task'[n].pc # "decode" /\ sources'[n].st = "none"

\* C16: a decode failure on one chunk is swallowed: nothing is added to
\* the playback set, the session stays as it was, and the interruption flag
\* of the same message is still handled (the playback set is cleared and
\* nextStartTime reset).
C16_DecodeFailureSwallowed ==
  [][\A n \in Msgs :
       DecodeFails(n)
         => /\ PlaybackSet' \subseteq PlaybackSet
            /\ appState' = appState /\ status' = status
            /\ isConnected' = isConnected /\ chan' = chan
            /\ task[n].interrupted
                 => (PlaybackSet' = {} /\ nextStartTimeRef' = 0)]_vars

\* the application shows the voice session as Active
ShownActive ==
  IF variant = "hook" THEN appState = "ACTIVE"
  ELSE status = "connected" /\ ~chatSessionRef

\* the application shows the session as Connecting
ShownConnecting ==
  IF variant = "hook" THEN appState = "CONNECTING" ELSE status = "connecting"

\* C17: the session state follows Idle -> Connecting -> Active -> Closing ->
\* Idle: Error is entered only from Connecting or Active (never from Idle,
\* by a late channel error or a late tool call after stop), and Active only
\* from Connecting (never from Error).
C17_TransitionsFollowLifecycle ==
  [][/\ (ShownError' /\ ~ShownError) => (ShownConnecting \/ ShownActive)
     /\ (ShownActive' /\ ~ShownActive) => ShownConnecting]_vars

\* the arguments carry every field of the record as a non-empty string
Complete(args) ==
  args.present /\ \A f \in Fields : args.f[f].t = "str" /\ args.f[f].s # <<>>

PaymentOnly(m) ==
  m.calls # <<>> /\ \A j \in 1..Len(m.calls) : m.calls[j].name = "requestPayment"

\* C19: requestPayment surfaces the payment prompt and its acknowledgement
\* goes back in the same step, without the handler waiting on anything; the
\* session status, the capture resources, the playback set and the channel
\* are left as they were.
C19_PaymentOnlyPrompts ==
  [][\A m \in ToolMessages :
       (variant = "app" /\ PaymentOnly(m) /\ \E i \in Sessions : App_onmessage(i, m))
         => /\ showPayment'
            /\ task'[nMsgs + 1].pc = "done"
            /\ \A j \in 1..Len(m.calls) :
                 chan[task'[nMsgs + 1].sess] = "open"
                   => \E k \in 1..Len(sentResponses') :
                        k > Len(sentResponses) /\ sentResponses'[k] = <<nMsgs + 1, j>>
            /\ UNCHANGED <<status, hasError, stream, trackStops, chan, closeCalls,
                           procNode, srcNode, processorRef, inputSourceRef,
                           audioContextRef, sessionPromiseRef, sources,
                           sourcesRef, nextStartTimeRef>>]_vars

\* the payment prompt is up in a connected session: a requestPayment call
\* was handled and answered, and no handler is suspended
C19_PromptShownWhileConnected ==
  /\ variant = "app"
  /\ showPayment
  /\ status = "connected"
  /\ \E i \in Sessions : chan[i] = "open" /\ stream[i] = "live"
  /\ \E n \in Msgs : Handled(n) /\ nCalls[n] > 0 /\ AllAnswered(n)
  /\ \A n \in Msgs : task[n].pc \notin {"email", "whatsapp", "decode"}

\* a fixed bound on the frames waiting to be sent, below the number of
\* frames the capture callback delivers in a session
QueueBound == MaxFrames - 1

\* C20: the number of captured frames waiting to be sent never exceeds a
\* fixed bound: when sends cannot keep up the oldest waiting frame is dropped.
C20_SendQueueBounded ==
  \A i \in Sessions : chan[i] = "open" => Len(outbox[i]) <= QueueBound

\* the interruption block ran and no chunk has arrived or been scheduled
\* since: a handler still suspended on its decode belongs to a message that
\* arrived before the interruption
NothingSinceInterruption ==
  timeline.last = 0 /\ timeline.arr = -1 /\ timeline.cut >= 0

\* C21: a chunk whose message arrived before an interruption is never
\* started or added to the playback set after that interruption has cleared
\* the set.
C21_NoScheduleAcrossInterruption ==
  [][\A n \in Msgs :
       (NothingSinceInterruption /\ task[n].pc = "decode")
         => (sources'[n].st = "none" /\ n \notin PlaybackSet')]_vars

\* C22: when a chunk is handed to the audio output (source.start), its
\* start time is not earlier than the playback clock at that moment, even
\* when the clock advanced while the chunk was being decoded.
C22_NeverScheduledInThePast ==
  [][\A n \in Msgs :
       SchedStep(n) => sources'[n].start >= Clock(sources'[n].ctx)]_vars

\* C23: inbound messages take effect in arrival order; in particular the
\* tool responses go out in the order in which their tool calls were
\* received (message by message, call by call), even when an earlier handler
\* is still awaiting an external call.
C23_ResponsesInArrivalOrder ==
  \A a, b \in 1..Len(sentResponses) :
    a < b
      => \/ sentResponses[a][1] < sentResponses[b][1]
         \/ /\ sentResponses[a][1] = sentResponses[b][1]
            /\ sentResponses[a][2] <= sentResponses[b][2]

\* a requestPayment call was handled in the current session of App.tsx:
\* the prompt it raised is taken down by a new connect or a disconnect (the
\* prompt's own dismiss button is not part of the model)
PaymentRequested == showPayment

\* the step completes a submitPrescriptionRequest call of message n: both
\* notifications were sent and the success result is returned
SubmitProcessed(n) ==
  variant = "app" /\ task[n].pc = "whatsapp" /\ App_whatsappSettles(n)

\* C24: in the payment-gated engine a submitPrescriptionRequest call is
\* processed only if a requestPayment call was handled earlier in the same
\* session.
C24_SubmitOnlyAfterPayment ==
  [][\A n \in Msgs : SubmitProcessed(n) => PaymentRequested]_vars

\* C25: a validation error is surfaced to the caller only after the session
\* has ended: at the call that surfaces it, stop() has already released the
\* session's resources.
C25_ValidationErrorAfterStop ==
  surfaced # "active"

\* stop() ran while start call i was still waiting for the microphone, and
\* no start was made since: the application is back at WELCOME
StoppedWhilePending(i) ==
  /\ variant = "hook"
  /\ i = nStarts
  /\ startPc[i] = "awaitMic"
  /\ appState = "WELCOME"

\* C26: when stop() was called while start() was still pending, the pending
\* start does not afterwards make the session active: when it resumes, no
\* capture stream is held, no channel is opened and the session-active flag
\* stays false.
C26_StoppedStartStaysStopped ==
  [][\A i \in Sessions :
       (StoppedWhilePending(i) /\ startPc'[i] = "done")
         => /\ stream'[i] # "live" /\ audioStreamRef' = 0
            /\ chan'[i] \notin {"connecting", "open"}
            /\ ~isSessionActiveRef']_vars

\* the step is a callback of channel s: its onopen, its onclose, its
\* onerror, or the end of the decode of a chunk it delivered
CallbackOf(s) ==
  \/ Hook_onopen(s) \/ App_onopen(s)
  \/ ClosedEvent(s) \/ ErrorEvent(s)
  \/ \E n \in Msgs, ok \in BOOLEAN, dur \in Durations :
       /\ task[n].sess = s
       /\ Hook_decodeSettles(n, ok, dur) \/ App_decodeSettles(n, ok, dur)

\* C27: a callback of an earlier session that fires after a new session was
\* started does not change the new session's state: no capture processor is
\* attached, nothing is scheduled into the playback set, and the status
\* (connected flag, session-active flag, microphone stream) stays as it was.
C27_StaleCallbacksAreInert ==
  [][\A s \in Sessions :
       (s < nStarts /\ CallbackOf(s))
         => /\ procNode' = procNode /\ processorRef' = processorRef
            /\ PlaybackSet' \subseteq PlaybackSet
            /\ isConnected' = isConnected /\ status' = status
            /\ isSessionActiveRef' = isSessionActiveRef
            /\ stream' = stream]_vars

\* stop() has run and no start call was made since
StoppedAndNotRestarted == stoppedAt = nStarts

\* C28: after stop() has run and until the next start call, a capture
\* callback that fires hands no frame to the channel.
C28_NoFrameSentAfterStop ==
  [][\A i \in Sessions :
       (StoppedAndNotRestarted /\ onaudioprocess(i)) => outbox' = outbox]_vars

\* C29: the application state SEND is reached only after the payment link
\* was clicked: in every reachable state, appState = SEND implies that
\* hasClickedPayment is true and collectedData is not null.
C29_SendOnlyAfterPaymentClick ==
  appState = "SEND" => (hasClickedPayment /\ collectedData # NoData)

\* the application is at SEND with a record, the payment link clicked
C29_AtSend ==
  /\ variant = "hook"
  /\ appState = "SEND"
  /\ hasClickedPayment
  /\ collectedData # NoData

\* a tool handler of the App engine is still executing: an executeTool call
\* is suspended on sendEmailNotification or sendWhatsAppNotification
ToolExecuting ==
  variant = "app" /\ \E n \in Msgs : task[n].pc \in {"email", "whatsapp"}

\* C30: isProcessingTool is true whenever at least one tool handler is still
\* executing: when two executeTool invocations overlap (two inbound messages),
\* the completion of one does not clear the indicator while the other is
\* still running.
C30_IndicatorCoversRunningTools ==
  ToolExecuting => isProcessingTool

=============================================================================
